---- MODULE Spec2Model ----
(***************************************************************************)
(* Model of the image auto-tagging pipeline of LocalImageSearch:           *)
(*   src/src/main.py          orchestrator (main, process_single_image)    *)
(*   src/src/cli_config.py    Config                                       *)
(*   src/src/tagging.py       process_image, parse_tags                    *)
(*   src/src/db_manager.py    Database (image_tags table, insert_tag)      *)
(*   src/src/database/db.py   update_index_status and its batch form       *)
(*   src/src/index_builder.py IndexBuilder (tag_index, image_fts)          *)
(*                                                                         *)
(* Text is modelled as a sequence of atoms.  An atom is one character, or  *)
(* a fixed multi-character piece of text that the code looks for as a      *)
(* whole (a reasoning keyword, the "tags:" label) or a run of 100 letters, *)
(* so that the 100-character ceiling of parse_tags is reached by short     *)
(* sequences.  Width gives the number of characters an atom stands for.    *)
(***************************************************************************)
EXTENDS Integers, Sequences, FiniteSets, Bags, TLC

\* ------------------------------------------------------------------------
\* Text
\* ------------------------------------------------------------------------

\* Python str.isspace() characters of the alphabet: the space and the newline.
Whitespace == {" ", "nl"}

\* The letters of the alphabet (none of them spells a reasoning keyword).
Letters == {"a", "b", "c"}

\* Number of characters an atom stands for: "X" is a run of 100 letters x.
Width(ch) ==
  CASE ch = "X" -> 100
    [] ch = "okay" -> 4
    [] ch = "maybe" -> 5
    [] ch = "tags:" -> 5
    [] OTHER -> 1

\* Python len(s).
RECURSIVE StrLen(_)
StrLen(s) == IF s = <<>> THEN 0 ELSE Width(Head(s)) + StrLen(Tail(s))

\* Python `ch in s` for a single atom.
Contains(s, ch) == \E i \in 1..Len(s) : s[i] = ch

\* Python s.count(ch).
Count(s, ch) == Cardinality({i \in 1..Len(s) : s[i] = ch})

\* Python s.lstrip() / s.rstrip() / s.strip().
RECURSIVE LStrip(_)
LStrip(s) == IF s # <<>> /\ Head(s) \in Whitespace THEN LStrip(Tail(s)) ELSE s

RECURSIVE RStrip(_)
RStrip(s) ==
  IF s # <<>> /\ s[Len(s)] \in Whitespace THEN RStrip(SubSeq(s, 1, Len(s) - 1)) ELSE s

Strip(s) == RStrip(LStrip(s))

\* Python s.split(sep) for a one-character separator: every piece, empty ones
\* included.
RECURSIVE SplitAcc(_, _, _)
SplitAcc(s, sep, cur) ==
  IF s = <<>> THEN <<cur>>
  ELSE IF Head(s) = sep THEN <<cur>> \o SplitAcc(Tail(s), sep, <<>>)
  ELSE SplitAcc(Tail(s), sep, Append(cur, Head(s)))

Split(s, sep) == SplitAcc(s, sep, <<>>)

\* Python s.split(): pieces between runs of whitespace, never empty.
RECURSIVE SplitWSAcc(_, _)
SplitWSAcc(s, cur) ==
  IF s = <<>> THEN (IF cur = <<>> THEN <<>> ELSE <<cur>>)
  ELSE IF Head(s) \in Whitespace
       THEN (IF cur = <<>> THEN <<>> ELSE <<cur>>) \o SplitWSAcc(Tail(s), <<>>)
  ELSE SplitWSAcc(Tail(s), Append(cur, Head(s)))

SplitWS(s) == SplitWSAcc(s, <<>>)

\* Python sep.join(parts).
RECURSIVE Join(_, _)
Join(parts, sep) ==
  IF parts = <<>> THEN <<>>
  ELSE IF Len(parts) = 1 THEN parts[1]
  ELSE parts[1] \o sep \o Join(Tail(parts), sep)

\* Python [f(x) for x in xs if p(x)] helpers.
RECURSIVE StripAll(_)
StripAll(parts) ==
  IF parts = <<>> THEN <<>> ELSE <<Strip(Head(parts))>> \o StripAll(Tail(parts))

RECURSIVE DropEmpty(_)
DropEmpty(parts) ==
  IF parts = <<>> THEN <<>>
  ELSE IF Head(parts) = <<>> THEN DropEmpty(Tail(parts))
  ELSE <<Head(parts)>> \o DropEmpty(Tail(parts))

\* Python xs[:n] for n >= 0.
Take(xs, n) == SubSeq(xs, 1, IF n < Len(xs) THEN n ELSE Len(xs))

\* SQL REPLACE(tags, ',', ' ').
ReplaceCommas(s) == [i \in 1..Len(s) |-> IF s[i] = "," THEN " " ELSE s[i]]

\* ------------------------------------------------------------------------
\* tagging.py: parse_tags
\* ------------------------------------------------------------------------

\* The length ceiling of a tag.
MaxTagLen == 100

\* The length under which a line counts as a tag line.
MaxTagLineLen == 300

\* reasoning_keywords: atoms that stand for a keyword of the list.
reasoning_keywords == {"okay", "maybe"}

\* reasoning_keywords[:5]: the keywords that disqualify a tag line.
reasoning_keywords_first5 == {"okay"}

\* separators, in priority order: , (fw-comma) (enumeration comma) ; (fw-semi)
separators == <<",", "fwcomma", "dun", ";", "fwsemi">>

has_reasoning(text) == \E i \in 1..Len(text) : text[i] \in reasoning_keywords

\* Method 1: the last line with at least two commas, under 300 characters and
\* free of the first five keywords; the text itself when there is none.
RECURSIVE LastTagLine(_, _)
LastTagLine(lines, text) ==
  IF lines = <<>> THEN text
  ELSE LET line == lines[Len(lines)] IN
       IF /\ Contains(line, ",")
          /\ StrLen(line) < MaxTagLineLen
          /\ Count(line, ",") >= 2
          /\ ~ \E i \in 1..Len(line) : line[i] \in reasoning_keywords_first5
       THEN Strip(line)
       ELSE LastTagLine(SubSeq(lines, 1, Len(lines) - 1), text)

\* re.search(r'tags?:\s*(.+?)(?:\n|$)'): positions of the label that are
\* followed, after whitespace, by at least one character.
LabelMatches(text) ==
  {i \in 1..Len(text) : text[i] = "tags:" /\ LStrip(SubSeq(text, i + 1, Len(text))) # <<>>}

\* match.group(1): from the first non-blank character after the label up to
\* the end of that line.
LabelGroup(text, i) ==
  LET rest == LStrip(SubSeq(text, i + 1, Len(text)))
  IN Split(rest, "nl")[1]

\* re.findall(r'"([^"]+)"'): non-empty quoted pieces, left to right.
RECURSIVE Quoted(_)
Quoted(s) ==
  IF s = <<>> THEN <<>>
  ELSE IF Head(s) # "Q" THEN Quoted(Tail(s))
  ELSE LET rest == Tail(s)
           closes == {j \in 1..Len(rest) : rest[j] = "Q"}
       IN IF closes = {} THEN <<>>
          ELSE LET j == CHOOSE k \in closes : \A m \in closes : k <= m
               IN IF j = 1 THEN Quoted(rest)
                  ELSE <<SubSeq(rest, 1, j - 1)>> \o Quoted(SubSeq(rest, j + 1, Len(rest)))

\* The text that is split, after the recovery of a tag list from reasoning.
RecoverTags(text) ==
  IF ~ has_reasoning(text) THEN text
  ELSE LET t1 == LastTagLine(Split(Strip(text), "nl"), text)
           ms == LabelMatches(t1)
       IN IF ms # {}
          THEN Strip(LabelGroup(t1, CHOOSE i \in ms : \A k \in ms : i <= k))
          ELSE IF Contains(t1, "Q") /\ Quoted(t1) # <<>>
               THEN Join(Quoted(t1), <<",", " ">>)
               ELSE t1

\* [t for t in tags if len(t) < 100]
RECURSIVE ShortOnly(_)
ShortOnly(parts) ==
  IF parts = <<>> THEN <<>>
  ELSE IF StrLen(Head(parts)) < MaxTagLen THEN <<Head(parts)>> \o ShortOnly(Tail(parts))
  ELSE ShortOnly(Tail(parts))

\* The separator loop: the first separator present whose pieces leave a tag.
RECURSIVE SplitBySeparators(_, _, _)
SplitBySeparators(text, seps, expected_count) ==
  IF seps = <<>> THEN
    IF StrLen(text) > 0 THEN
      IF Contains(text, " ")
      THEN Take(ShortOnly(DropEmpty(StripAll(SplitWS(text)))), expected_count)
      ELSE IF StrLen(text) < MaxTagLen THEN Take(<<text>>, expected_count) ELSE <<>>
    ELSE <<>>
  ELSE LET tags == ShortOnly(DropEmpty(StripAll(Split(text, Head(seps))))) IN
       IF Contains(text, Head(seps)) /\ tags # <<>>
       THEN Take(tags, expected_count)
       ELSE SplitBySeparators(text, Tail(seps), expected_count)

parse_tags(tag_text, expected_count) ==
  IF tag_text = <<>> THEN <<>>
  ELSE SplitBySeparators(RecoverTags(Strip(tag_text)), separators, expected_count)

\* ------------------------------------------------------------------------
\* index_builder.py: _parse_tags
\* ------------------------------------------------------------------------

_parse_tags(tags_str) ==
  IF tags_str = <<>> THEN <<>> ELSE DropEmpty(StripAll(Split(tags_str, ",")))

\* ------------------------------------------------------------------------
\* utils.py: generate_unique_id, get_image_files
\* ------------------------------------------------------------------------

\* A path is a sequence of components; it is absolute when it starts at "/".
\* The working directory of the process.
cwd == <<"/", "home">>

\* Path.resolve(): make the path absolute and drop "." components.
RECURSIVE DropDots(_)
DropDots(p) ==
  IF p = <<>> THEN <<>>
  ELSE IF Head(p) = "." THEN DropDots(Tail(p))
  ELSE <<Head(p)>> \o DropDots(Tail(p))

\* Path.resolve(): a ".." component drops the component before it; the root
\* is its own parent.  (No symbolic links in the file system of the model.)
RECURSIVE DropDotDots(_, _)
DropDotDots(p, seen) ==
  IF p = <<>> THEN seen
  ELSE IF Head(p) = ".."
  THEN DropDotDots(Tail(p), IF Len(seen) > 1 THEN SubSeq(seen, 1, Len(seen) - 1) ELSE seen)
  ELSE DropDotDots(Tail(p), Append(seen, Head(p)))

\* resolve that leaves the path as it was given.
resolve_absent(p) == p

resolve(p) ==
  DropDotDots(DropDots(IF p # <<>> /\ Head(p) = "/" THEN p ELSE cwd \o p), <<>>)

\* hashlib.sha256(...).hexdigest(): the digest of a text, taken as free of
\* collisions.
sha256(text) == <<"sha256">> \o text

generate_unique_id(image_path) == sha256(resolve(image_path))

\* Number of image files in the directory given as --image-path.
NumImages == 2

\* get_image_files(directory): the sorted list of the image files.
ImageNames == <<"img1", "img2", "img3", "img4">>

all_image_files == [k \in 1..NumImages |-> <<"pics", ImageNames[k]>>]

\* ------------------------------------------------------------------------
\* db_manager.py: the image_tags table
\* ------------------------------------------------------------------------

\* SQL NULL / Python None in a text column.
NULL == <<"NULL">>

\* The absence of a row, of arguments or of a result.
None == [none |-> TRUE]

\* CheckTagCount without the constraint: every tag_count is accepted.
CheckTagCount_absent(tag_count) == TRUE

\* CHECK (tag_count > 0) of CREATE TABLE image_tags.
CheckTagCount(tag_count) == tag_count > 0

\* ReplaceConflicts with the comparison inverted: the other rows are deleted.
ReplaceConflicts_inverted(rows, image_unique_id) ==
  {r \in rows : r.image_unique_id = image_unique_id}

\* UNIQUE conflict resolution of INSERT OR REPLACE: the rows that stay.
ReplaceConflicts(rows, image_unique_id) ==
  {r \in rows : r.image_unique_id # image_unique_id}

\* The row that INSERT OR REPLACE stores for the arguments of insert_tag:
\* a fresh AUTOINCREMENT id and the column default of index_status.
NewRow(id, args) ==
  [id |-> id,
   image_unique_id |-> args.image_unique_id,
   image_path |-> args.image_path,
   tags |-> args.tags,
   description |-> args.description,
   tag_count |-> args.tag_count,
   status |-> args.status,
   error_message |-> args.error_message,
   index_status |-> "not_indexed"]

\* insert_tag as an update in place: the row of an image that is stored again
\* keeps its id.
insert_tag_in_place(rows, s, args) ==
  IF CheckTagCount(args.tag_count)
  THEN LET old == {r \in rows : r.image_unique_id = args.image_unique_id}
       IN IF old = {}
          THEN [rows |-> rows \cup {NewRow(s + 1, args)}, seq |-> s + 1, ok |-> TRUE]
          ELSE [rows |-> (rows \ old) \cup {NewRow((CHOOSE r \in old : TRUE).id, args)},
                seq |-> s, ok |-> TRUE]
  ELSE [rows |-> rows, seq |-> s, ok |-> FALSE]

\* Database.insert_tag: the table and the sequence afterwards, and the value
\* returned.  A constraint failure is caught, rolled back and answered False.
insert_tag(rows, s, args) ==
  IF CheckTagCount(args.tag_count)
  THEN [rows |-> ReplaceConflicts(rows, args.image_unique_id) \cup {NewRow(s + 1, args)},
        seq |-> s + 1, ok |-> TRUE]
  ELSE [rows |-> rows, seq |-> s, ok |-> FALSE]

\* get_tags_by_image_id that finds no row.
get_tags_by_image_id_blind(rows, image_unique_id) == None

\* Database.get_tags_by_image_id: the row of the image, or None.
get_tags_by_image_id(rows, image_unique_id) ==
  IF \E r \in rows : r.image_unique_id = image_unique_id
  THEN CHOOSE r \in rows : r.image_unique_id = image_unique_id
  ELSE None

\* ------------------------------------------------------------------------
\* model_factory.py: the model call
\* ------------------------------------------------------------------------

\* ModelAPIError.error_type of the failures of a model call.
ModelErrorKinds == {"TIMEOUT", "CONNECTION_ERROR", "HTTP_ERROR", "EMPTY_RESPONSE", "PARSE_FAILED"}

\* ModelAPIError.to_error_message(): "[kind] detail".
to_error_message(kind) == <<"[", kind, "]", " ", "detail">>

\* The tag texts a model call returns (never empty: an empty one is raised as
\* EMPTY_RESPONSE or PARSE_FAILED).
ModelTexts == {<<"a", ",", "b">>, <<"b", ",", " ", "b">>, <<"X">>}

\* The texts generate_description returns.
DescriptionTexts == {<<" ", "d">>}

\* ------------------------------------------------------------------------
\* tagging.py: process_image
\* ------------------------------------------------------------------------

\* The arguments of the insert_tag call that records a failure.
FailedArgs(image_path, error_message) ==
  [image_unique_id |-> generate_unique_id(image_path),
   image_path |-> image_path,
   tags |-> <<>>, description |-> NULL, tag_count |-> 0,
   status |-> "failed", error_message |-> error_message]

\* The arguments of the insert_tag call that records the tags.
SuccessArgs(image_path, tags, description) ==
  [image_unique_id |-> generate_unique_id(image_path),
   image_path |-> image_path,
   tags |-> Join(tags, <<",">>), description |-> description,
   tag_count |-> Len(tags),
   status |-> "success", error_message |-> NULL]

\* What the environment does to one call of process_image:
\*   load  - load_and_preprocess_image returns bytes
\*   model - "raise" (create_model raises), an error kind, or "text"
\*   text  - the text generate_tags returns
\*   desc  - "raise" (generate_description raises) or the text it returns
Environment(load, model, text, desc) ==
  [load |-> load, model |-> model, text |-> text, desc |-> desc]

AnyText == CHOOSE t \in ModelTexts : TRUE
AnyDesc == CHOOSE d \in DescriptionTexts : TRUE

Environments ==
  {Environment(FALSE, "text", AnyText, AnyDesc), Environment(TRUE, "raise", AnyText, AnyDesc)}
  \cup {Environment(TRUE, k, AnyText, AnyDesc) : k \in ModelErrorKinds}
  \cup {Environment(TRUE, "text", t, d) : t \in ModelTexts, d \in {<<"raise">>} \cup DescriptionTexts}

\* process_image after the already-processed check: the insert_tag call it
\* makes (or None), what it returns (or that it raises) and what happened.
process_image(image_path, tag_count, generate_description, env) ==
  IF ~ env.load THEN
    [args |-> FailedArgs(image_path, <<"Failed to load or process image">>),
     ret |-> FALSE, raised |-> FALSE, outcome |-> "load_failed", tags |-> <<>>]
  ELSE IF env.model = "raise" THEN
    [args |-> None, ret |-> FALSE, raised |-> TRUE, outcome |-> "raised", tags |-> <<>>]
  ELSE IF env.model \in ModelErrorKinds THEN
    [args |-> FailedArgs(image_path, to_error_message(env.model)),
     ret |-> FALSE, raised |-> FALSE, outcome |-> env.model, tags |-> <<>>]
  ELSE IF env.text = <<>> THEN
    [args |-> FailedArgs(image_path, <<"empty tags">>),
     ret |-> FALSE, raised |-> FALSE, outcome |-> "empty_text", tags |-> <<>>]
  ELSE LET tags == parse_tags(env.text, tag_count) IN
    IF generate_description /\ env.desc = <<"raise">> THEN
      [args |-> None, ret |-> FALSE, raised |-> TRUE, outcome |-> "raised", tags |-> tags]
    ELSE
      [args |-> SuccessArgs(image_path, tags,
                            IF generate_description THEN Strip(env.desc) ELSE NULL),
       ret |-> TRUE, raised |-> FALSE, outcome |-> "tagged", tags |-> tags]

\* ------------------------------------------------------------------------
\* index_builder.py: IndexBuilder
\* ------------------------------------------------------------------------

\* The rows of a table in the order of their ids (the order of the SELECT).
RECURSIVE RowsById(_)
RowsById(rows) ==
  IF rows = {} THEN <<>>
  ELSE LET first == CHOOSE r \in rows : \A q \in rows : r.id <= q.id
       IN <<first>> \o RowsById(rows \ {first})

\* InsertOrIgnore as a plain INSERT into a table without the UNIQUE constraint.
InsertOrIgnore_plain(index, entry) ==
  CHOOSE result \in {table (+) SetToBag({entry}) : table \in {index}} : TRUE

\* INSERT OR IGNORE INTO tag_index: a row that conflicts with UNIQUE(tag,
\* image_id) is dropped.  tag_index is a bag of rows (its own id column, which
\* nothing reads, is left out).  (table is the value of index, computed once.)
InsertOrIgnore(index, entry) ==
  CHOOSE result \in
    {IF \E e \in BagToSet(table) : e.tag = entry.tag /\ e.image_id = entry.image_id
     THEN table
     ELSE table (+) SetToBag({entry}) : table \in {index}} : TRUE

\* The inner loop of _build_tag_index over the tags of one record.
RECURSIVE IndexTags(_, _, _)
IndexTags(index, row, tags) ==
  IF tags = <<>> THEN index
  ELSE IndexTags(InsertOrIgnore(index, [tag |-> Head(tags), image_id |-> row.id,
                                        image_unique_id |-> row.image_unique_id]),
                 row, Tail(tags))

\* The outer loop of _build_tag_index over the selected records: row is the
\* record of the iteration and tags what _parse_tags makes of its tags column.
RECURSIVE IndexRows(_, _)
IndexRows(index, rows) ==
  IF rows = <<>> THEN index
  ELSE CHOOSE result \in
         {IndexRows(IndexTags(index, row, tags), Tail(rows)) :
            row \in {Head(rows)}, tags \in {_parse_tags(Head(rows).tags)}} : TRUE

\* insert_count of _build_tag_index: one per executed INSERT OR IGNORE.
RECURSIVE InsertCount(_)
InsertCount(rows) ==
  IF rows = <<>> THEN 0 ELSE Len(_parse_tags(Head(rows).tags)) + InsertCount(Tail(rows))

\* SELECT ... FROM image_tags WHERE status = 'success'
SuccessRows(rows) == {r \in rows : r.status = "success"}

\* DeleteFromTagIndex left out: the build adds to what is there.
DeleteFromTagIndex_skipped(index) == index

\* What DELETE FROM tag_index leaves of the index.
DeleteFromTagIndex(index) == EmptyBag

\* IndexBuilder._build_tag_index: the new tag_index and the count returned.
_build_tag_index(index, rows) ==
  CHOOSE result \in
    {[index |-> IndexRows(DeleteFromTagIndex(index), selected),
      count |-> InsertCount(selected)] :
       selected \in {RowsById(SuccessRows(rows))}} : TRUE

\* Coalesce left out: a NULL description is copied as it is.
Coalesce_absent(description) == description

\* COALESCE(description, '')
Coalesce(description) == IF description = NULL THEN <<>> ELSE description

\* The entry of image_fts for one record.
FtsEntry(row) ==
  [rowid |-> row.id, tags |-> ReplaceCommas(row.tags),
   description |-> Coalesce(row.description)]

\* IndexBuilder._build_fts_index: the table is dropped, created and filled.
_build_fts_index(rows) ==
  CHOOSE result \in
    {[fts |-> fts, count |-> Cardinality(fts)] :
       fts \in {{FtsEntry(r) : r \in SuccessRows(rows)}}} : TRUE

\* ------------------------------------------------------------------------
\* main.py: process_single_image
\* ------------------------------------------------------------------------

\* db.close() placed after the call of process_image instead of in a finally
\* clause: it is not reached when the call raises.
finally_close_absent(conn, raised) == IF raised THEN conn ELSE "closed"

\* The finally clause of process_single_image: db.close() runs however the
\* try block is left, by a return or by an exception.
finally_close(conn, raised) == "closed"

\* The tuple process_single_image returns for what process_image did: an
\* exception is caught and turned into a failure with its text.
process_single_image(r) ==
  [success |-> IF r.raised THEN FALSE ELSE r.ret,
   error |-> IF r.raised THEN "error" ELSE "none"]

\* ------------------------------------------------------------------------
\* State
\* ------------------------------------------------------------------------

\* Number of runs of main.
MaxRuns == 2

\* Number of calls of update_index_status / batch_update_index_status.
MaxUpdates == 1

\* settings.INDEX_STATUS_*: the values passed as index_status.
IndexStatusInputs == {"indexed", "failed"}

\* The values passed as error_message to update_index_status.
ErrorMessageInputs == {NULL, <<"index error">>}

\* The Config objects cli_config builds (Config.__init__ and parse_args): among
\* the attributes they carry are reprocess, generate_description and
\* tag_count; batch_size and max_workers are not among them.
ShippedConfigs ==
  [reprocess : BOOLEAN, generate_description : BOOLEAN, tag_count : {2}]

\* Config objects on which batch_size and max_workers, the two attributes main
\* reads and cli_config does not set, have been set as well.
ExtendedConfigs ==
  [reprocess : BOOLEAN, generate_description : BOOLEAN, tag_count : {2},
   batch_size : {1, NumImages}, max_workers : {1, 2}]

\* The configurations main is run with.
Configs == ShippedConfigs \cup ExtendedConfigs

\* hasattr(config, name)
hasattr(c, name) == name \in DOMAIN c

VARIABLES
  image_tags,       \* the rows of the image_tags table
  seq,              \* sqlite_sequence of image_tags (AUTOINCREMENT)
  tag_index,        \* the rows of the tag_index table, a bag
  image_fts,        \* the entries of the image_fts table
  tables,           \* the tables that exist in the database file
  pc,               \* where main is: "idle", "tagging", "report", or "crashed"
                    \* when it has ended with an uncaught exception
  config,           \* the configuration of the run
  image_files,      \* the batch of the run
  task,             \* per image of the batch, the state of its task
  processed_count,  \* main's processed_count
  failed_count,     \* main's failed_count
  index_stats,      \* what build() returned to main
  report,           \* how the last run of main ended
  runs,             \* number of runs of main so far
  updates,          \* number of index status updates so far
  last_op,          \* the last operation on the store and how it ended
  failed_attempts   \* history: images whose tagging attempt failed

vars == <<image_tags, seq, tag_index, image_fts, tables, pc, config, image_files,
          task, processed_count, failed_count, index_stats, report, runs,
          updates, last_op, failed_attempts>>

store == <<image_tags, seq, tag_index, image_fts, tables>>
run == <<pc, config, image_files, task, processed_count, failed_count, index_stats, report, runs>>

NoConfig == [reprocess |-> FALSE, max_workers |-> 1, batch_size |-> 1,
             generate_description |-> FALSE, tag_count |-> 2]

Queued == [st |-> "queued", outcome |-> "none", success |-> FALSE, error |-> "none",
           wrote |-> None, tags |-> <<>>, conn |-> "none"]

NoOp == [op |-> "none", rejected |-> FALSE, raised |-> FALSE, changed |-> FALSE]

Init ==
  /\ image_tags = {}
  /\ seq = 0
  /\ tag_index = EmptyBag
  /\ image_fts = {}
  /\ tables = {}
  /\ pc = "idle"
  /\ config = NoConfig
  /\ image_files = <<>>
  /\ task = <<>>
  /\ processed_count = 0
  /\ failed_count = 0
  /\ index_stats = None
  /\ report = "none"
  /\ runs = 0
  /\ updates = 0
  /\ last_op = NoOp
  /\ failed_attempts = {}

\* ------------------------------------------------------------------------
\* main.py: main
\* ------------------------------------------------------------------------

\* The images without a row in the store (the filter of a run that does not
\* reprocess).
RECURSIVE Unprocessed(_, _)
Unprocessed(files, rows) ==
  IF files = <<>> THEN <<>>
  ELSE IF get_tags_by_image_id(rows, generate_unique_id(Head(files))) = None
  THEN <<Head(files)>> \o Unprocessed(Tail(files), rows)
  ELSE Unprocessed(Tail(files), rows)

\* The images a run is to process: all of them, or those not in the store.
ToProcess(c, rows) ==
  IF c.reprocess THEN all_image_files ELSE Unprocessed(all_image_files, rows)

\* The batch of a run: the images to process, cut to batch_size.
Batch(c, rows) ==
  LET todo == ToProcess(c, rows)
  IN IF Len(todo) > c.batch_size THEN Take(todo, c.batch_size) ELSE todo

\* main raises AttributeError: at the batch size limit when the Config has no
\* batch_size, at the choice of the mode when there are images to process and
\* it has no max_workers.
RaisesAttributeError(c, rows) ==
  \/ ~ hasattr(c, "batch_size")
  \/ ~ hasattr(c, "max_workers") /\ Batch(c, rows) # <<>>

\* The count of runs after one more run: runs beyond MaxRuns are not counted.
CountRun(n) == IF n < MaxRuns THEN n + 1 ELSE n

\* The tasks that hold a worker: begun and not yet returned to the pool.
Active == {i \in DOMAIN task : task[i].st = "running"}

\* main up to the start of the tagging phase: the configuration is read, the
\* files are listed, filtered (through a connection of its own, unless the
\* run reprocesses) and cut to the batch.  Reading an attribute the Config
\* does not have ends main with an AttributeError; with nothing left to do
\* main exits.
StartRunWith(configs) ==
  /\ pc \in {"idle", "crashed"}
  /\ \E c \in configs :
       /\ tables' = IF c.reprocess THEN tables ELSE tables \cup {"image_tags"}
       /\ processed_count' = 0
       /\ failed_count' = 0
       /\ index_stats' = None
       /\ IF RaisesAttributeError(c, image_tags)
          THEN /\ pc' = "crashed"
               /\ runs' = CountRun(runs)
               /\ report' = "AttributeError"
               /\ config' = NoConfig
               /\ image_files' = <<>>
               /\ task' = <<>>
          ELSE LET batch == Batch(c, image_tags) IN
               /\ config' = IF batch = <<>> THEN NoConfig ELSE c
               /\ image_files' = batch
               /\ task' = [i \in 1..Len(batch) |-> Queued]
               /\ IF batch = <<>>
                  THEN /\ pc' = "idle"
                       /\ runs' = CountRun(runs)
                       /\ report' = "all_processed"
                  ELSE /\ pc' = "tagging"
                       /\ runs' = runs
                       /\ report' = "none"
  /\ UNCHANGED <<image_tags, seq, tag_index, image_fts, updates, last_op, failed_attempts>>

\* One of the MaxRuns runs of main, with any configuration.
StartRun == runs < MaxRuns /\ StartRunWith(Configs)

\* process_single_image up to the model call: the task gets a worker (the main
\* thread itself with max_workers = 1), opens its connection and process_image
\* looks the image up.
Begin(i) ==
  /\ pc = "tagging"
  /\ i \in DOMAIN task
  /\ task[i].st = "queued"
  /\ \A j \in 1..(i - 1) : task[j].st # "queued"
  /\ IF config.max_workers = 1
     THEN \A j \in 1..(i - 1) : task[j].st = "counted"
     ELSE Cardinality(Active) < config.max_workers
  /\ tables' = tables \cup {"image_tags"}
  /\ LET existing == get_tags_by_image_id(image_tags, generate_unique_id(image_files[i]))
     IN IF ~ config.reprocess /\ existing # None
        THEN task' = [task EXCEPT ![i].st = "closed", ![i].outcome = "skipped",
                                  ![i].conn = finally_close("open", FALSE)]
        ELSE task' = [task EXCEPT ![i].st = "running", ![i].conn = "open"]
  /\ UNCHANGED <<image_tags, seq, tag_index, image_fts, pc, config, image_files,
                 processed_count, failed_count, index_stats, report, runs, updates,
                 last_op, failed_attempts>>

\* process_single_image from the loading of the image on: the image is loaded,
\* the model is called, the tags are parsed, insert_tag is called and, in the
\* finally clause, the connection is closed.
Process(i) ==
  /\ pc = "tagging"
  /\ i \in DOMAIN task
  /\ task[i].st = "running"
  /\ \E env \in Environments :
       LET r == process_image(image_files[i], config.tag_count,
                              config.generate_description, env)
           w == IF r.args = None
                THEN [rows |-> image_tags, seq |-> seq, ok |-> TRUE]
                ELSE insert_tag(image_tags, seq, r.args)
           res == process_single_image(r)
       IN /\ image_tags' = w.rows
          /\ seq' = w.seq
          /\ task' = [task EXCEPT ![i] =
                        [st |-> "closed", outcome |-> r.outcome,
                         success |-> res.success, error |-> res.error,
                         wrote |-> IF r.args # None /\ w.ok THEN r.args ELSE None,
                         tags |-> r.tags,
                         conn |-> finally_close(task[i].conn, r.raised)]]
          /\ last_op' = IF r.args = None THEN last_op
                        ELSE [op |-> "insert_tag", rejected |-> ~ w.ok, raised |-> FALSE,
                              changed |-> w.rows # image_tags]
          /\ failed_attempts' = IF r.args # None /\ r.args.status = "failed"
                                THEN failed_attempts \cup {image_files[i]}
                                ELSE failed_attempts
  /\ UNCHANGED <<tag_index, image_fts, tables, pc, config, image_files,
                 processed_count, failed_count, index_stats, report, runs, updates>>

\* main takes the result of a task and counts it.
Collect(i) ==
  /\ pc = "tagging"
  /\ i \in DOMAIN task
  /\ task[i].st = "closed"
  /\ task' = [task EXCEPT ![i].st = "counted", ![i].outcome = "none", ![i].tags = <<>>]
  /\ processed_count' = IF task[i].success THEN processed_count + 1 ELSE processed_count
  /\ failed_count' = IF task[i].success THEN failed_count ELSE failed_count + 1
  /\ UNCHANGED <<store, pc, config, image_files, index_stats, report, runs, updates,
                 last_op, failed_attempts>>

\* IndexBuilder.build: both indexes are rebuilt and the counts are returned.
build(index, rows) ==
  CHOOSE result \in
    {[tag_index |-> t.index, image_fts |-> f.fts,
      stats |-> [tag_index_rows |-> t.count, fts_index_rows |-> f.count]] :
       t \in {_build_tag_index(index, rows)}, f \in {_build_fts_index(rows)}} : TRUE

\* Build without the wait for the workers: the indexes are built as soon as one
\* result has been counted.
Build_early ==
  /\ pc = "tagging"
  /\ \E i \in DOMAIN task : task[i].st = "counted"
  /\ \E b \in {build(tag_index, image_tags)} :
       /\ tag_index' = b.tag_index
       /\ image_fts' = b.image_fts
       /\ index_stats' = b.stats
  /\ tables' = tables \cup {"tag_index", "image_fts"}
  /\ pc' = "report"
  /\ last_op' = [op |-> "build", rejected |-> FALSE, raised |-> FALSE, changed |-> TRUE]
  /\ UNCHANGED <<image_tags, seq, config, image_files, task, processed_count,
                 failed_count, report, runs, updates, failed_attempts>>

\* main after the tagging phase: every task is counted, the indexes are built.
Build ==
  /\ pc = "tagging"
  /\ \A i \in DOMAIN task : task[i].st = "counted"
  /\ \E b \in {build(tag_index, image_tags)} :
       /\ tag_index' = b.tag_index
       /\ image_fts' = b.image_fts
       /\ index_stats' = b.stats
  /\ tables' = tables \cup {"tag_index", "image_fts"}
  /\ pc' = "report"
  /\ last_op' = [op |-> "build", rejected |-> FALSE, raised |-> FALSE, changed |-> TRUE]
  /\ UNCHANGED <<image_tags, seq, config, image_files, task, processed_count,
                 failed_count, report, runs, updates, failed_attempts>>

\* main prints the statistics of the run (total found, batch, successful,
\* failed) and ends; its locals are gone.
Report ==
  /\ pc = "report"
  /\ report' = "complete"
  /\ pc' = "idle"
  /\ runs' = CountRun(runs)
  /\ config' = NoConfig
  /\ task' = <<>>
  /\ image_files' = <<>>
  /\ processed_count' = 0
  /\ failed_count' = 0
  /\ index_stats' = None
  /\ UNCHANGED <<store, updates, last_op, failed_attempts>>

\* CliBuild with a build that writes index_status 'indexed' back to the
\* records it has indexed.
CliBuild_marking ==
  /\ pc = "idle"
  /\ IF "image_tags" \in tables
     THEN \E b \in {build(tag_index, image_tags)} :
            /\ tag_index' = b.tag_index
            /\ image_fts' = b.image_fts
            /\ tables' = tables \cup {"tag_index", "image_fts"}
            /\ image_tags' = {IF r.status = "success" THEN [r EXCEPT !.index_status = "indexed"]
                               ELSE r : r \in image_tags}
            /\ last_op' = [op |-> "build", rejected |-> FALSE, raised |-> FALSE,
                           changed |-> TRUE]
     ELSE /\ tables' = tables \cup {"tag_index"}
          /\ last_op' = [op |-> "build", rejected |-> FALSE, raised |-> TRUE,
                         changed |-> FALSE]
          /\ UNCHANGED <<tag_index, image_fts, image_tags>>
  /\ UNCHANGED <<seq, run, updates, failed_attempts>>

\* index_builder.py _cli_build: the build command.  Without an image_tags
\* table the SELECT raises after tag_index has been created.
CliBuild ==
  /\ pc = "idle"
  /\ IF "image_tags" \in tables
     THEN \E b \in {build(tag_index, image_tags)} :
            /\ tag_index' = b.tag_index
            /\ image_fts' = b.image_fts
            /\ tables' = tables \cup {"tag_index", "image_fts"}
            /\ last_op' = [op |-> "build", rejected |-> FALSE, raised |-> FALSE,
                           changed |-> TRUE]
     ELSE /\ tables' = tables \cup {"tag_index"}
          /\ last_op' = [op |-> "build", rejected |-> FALSE, raised |-> TRUE,
                         changed |-> FALSE]
          /\ UNCHANGED <<tag_index, image_fts>>
  /\ UNCHANGED <<image_tags, seq, run, updates, failed_attempts>>

\* ------------------------------------------------------------------------
\* database/db.py: update_index_status, batch_update_index_status
\* ------------------------------------------------------------------------

\* The UPDATE of update_index_status.
SetIndexStatus(rows, image_unique_id, index_status, error_message) ==
  {IF r.image_unique_id = image_unique_id
   THEN [r EXCEPT !.index_status = index_status, !.error_message = error_message]
   ELSE r : r \in rows}

\* The UPDATE of batch_update_index_status.
SetIndexStatusOf(rows, image_unique_ids, index_status) ==
  {IF r.image_unique_id \in image_unique_ids
   THEN [r EXCEPT !.index_status = index_status]
   ELSE r : r \in rows}

\* The identifiers the callers pass.
KnownIds == {generate_unique_id(all_image_files[k]) : k \in 1..NumImages}

\* update_index_status(session, image_unique_id, index_status, error_message);
\* when the engine raises (fault) the session is rolled back and the error is
\* raised again.
UpdateIndexStatus ==
  /\ pc = "idle"
  /\ updates < MaxUpdates
  /\ "image_tags" \in tables
  /\ updates' = updates + 1
  /\ \E id \in KnownIds, st \in IndexStatusInputs, msg \in ErrorMessageInputs, fault \in BOOLEAN :
       IF fault
       THEN /\ image_tags' = image_tags
            /\ last_op' = [op |-> "update_index_status", rejected |-> TRUE,
                           raised |-> TRUE, changed |-> FALSE]
       ELSE /\ image_tags' = SetIndexStatus(image_tags, id, st, msg)
            /\ last_op' = [op |-> "update_index_status", rejected |-> FALSE,
                           raised |-> FALSE, changed |-> image_tags' # image_tags]
  /\ UNCHANGED <<seq, tag_index, image_fts, tables, run, failed_attempts>>

\* batch_update_index_status(session, image_unique_ids, index_status)
BatchUpdateIndexStatus ==
  /\ pc = "idle"
  /\ updates < MaxUpdates
  /\ "image_tags" \in tables
  /\ updates' = updates + 1
  /\ \E ids \in SUBSET KnownIds, st \in IndexStatusInputs, fault \in BOOLEAN :
       IF fault
       THEN /\ image_tags' = image_tags
            /\ last_op' = [op |-> "batch_update_index_status", rejected |-> TRUE,
                           raised |-> TRUE, changed |-> FALSE]
       ELSE /\ image_tags' = SetIndexStatusOf(image_tags, ids, st)
            /\ last_op' = [op |-> "batch_update_index_status", rejected |-> FALSE,
                           raised |-> FALSE, changed |-> image_tags' # image_tags]
  /\ UNCHANGED <<seq, tag_index, image_fts, tables, run, failed_attempts>>

\* ------------------------------------------------------------------------
\* db_manager.py: Database.insert_tag called by a client of the store
\* ------------------------------------------------------------------------

\* Number of rows clients insert.
MaxInserts == 3

\* The tags strings clients pass.
TagStrings == {<<>>, <<"a", "b", ",", "b">>, <<"b", ",", " ", "b", ",">>}

\* The descriptions clients pass.
DescriptionInputs == {NULL, <<"d">>}

\* The tag counts clients pass.
TagCountInputs == {0, 2}

\* The arguments clients pass to insert_tag: a tagged image, or a failure with
\* its message and no description.
ApiArgs ==
  {[image_unique_id |-> generate_unique_id(all_image_files[k]),
    image_path |-> all_image_files[k],
    tags |-> t, description |-> d, tag_count |-> n, status |-> "success",
    error_message |-> NULL] :
     k \in 1..NumImages, t \in TagStrings, d \in DescriptionInputs, n \in TagCountInputs}
  \cup
  {[image_unique_id |-> generate_unique_id(all_image_files[k]),
    image_path |-> all_image_files[k],
    tags |-> t, description |-> NULL, tag_count |-> n, status |-> "failed",
    error_message |-> <<"error">>] :
     k \in 1..NumImages, t \in {<<>>, <<"a", ",", "b">>}, n \in TagCountInputs}

\* ApiInsertTag with an insert_tag that also indexes the tags of the row it
\* writes.
ApiInsertTag_reindexing ==
  /\ pc = "idle"
  /\ seq < MaxInserts
  /\ tables' = tables \cup {"image_tags"}
  /\ \E args \in ApiArgs :
       LET w == insert_tag(image_tags, seq, args)
       IN /\ image_tags' = w.rows
          /\ seq' = w.seq
          /\ tag_index' = IndexRows(tag_index, RowsById(SuccessRows(w.rows \ image_tags)))
          /\ last_op' = [op |-> "insert_tag", rejected |-> ~ w.ok, raised |-> FALSE,
                         changed |-> w.rows # image_tags]
  /\ UNCHANGED <<image_fts, run, updates, failed_attempts>>

\* Database(db_path).insert_tag(...) as a client of the store calls it (as
\* tests/test_system.py does).
ApiInsertTag ==
  /\ pc = "idle"
  /\ seq < MaxInserts
  /\ tables' = tables \cup {"image_tags"}
  /\ \E args \in ApiArgs :
       LET w == insert_tag(image_tags, seq, args)
       IN /\ image_tags' = w.rows
          /\ seq' = w.seq
          /\ last_op' = [op |-> "insert_tag", rejected |-> ~ w.ok, raised |-> FALSE,
                         changed |-> w.rows # image_tags]
  /\ UNCHANGED <<tag_index, image_fts, run, updates, failed_attempts>>

\* ------------------------------------------------------------------------
\* index_builder.py: IndexSearcher
\* ------------------------------------------------------------------------

\* The columns every search selects of a record.
Hit(row) ==
  [id |-> row.id, image_path |-> row.image_path, tags |-> row.tags,
   description |-> row.description]

\* What a search hands back: the list it returns, or the exception it raises.
Returns(hits) == [raised |-> FALSE, result |-> hits]
Raises == [raised |-> TRUE, result |-> <<>>]

\* The rows of tag_index joined to a record (ON ti.image_id = it.id) whose
\* tag is one of tags.
Joined(index, row, tags) ==
  {e \in BagToSet(index) : e.image_id = row.id /\ e.tag \in tags}

\* Number of rows of the table among entries.
RECURSIVE Copies(_, _)
Copies(index, entries) ==
  IF entries = {} THEN 0
  ELSE LET e == CHOOSE x \in entries : TRUE
       IN CopiesIn(e, index) + Copies(index, entries \ {e})

\* n times the same result row.
RECURSIVE Repeat(_, _)
Repeat(x, n) == IF n = 0 THEN <<>> ELSE <<x>> \o Repeat(x, n - 1)

\* ORDER BY it.id: the records in ascending id, each as many times as the
\* query yields it.
RECURSIVE OrderById(_, _)
OrderById(ordered, times) ==
  IF ordered = <<>> THEN <<>>
  ELSE Repeat(Hit(Head(ordered)), times[Head(ordered)]) \o OrderById(Tail(ordered), times)

\* A query on tag_index JOIN image_tags raises OperationalError (no such
\* table) unless both tables exist.
TagTablesExist(tbls) == {"tag_index", "image_tags"} \subseteq tbls

\* search_by_tag without tag.strip(): the input is matched as it is.
search_by_tag_unstripped(index, rows, tbls, tag) ==
  IF ~ TagTablesExist(tbls) THEN Raises
  ELSE Returns(OrderById(RowsById(rows),
                 [r \in rows |-> Copies(index, Joined(index, r, {tag}))]))

\* IndexSearcher.search_by_tag
search_by_tag(index, rows, tbls, tag) ==
  IF ~ TagTablesExist(tbls) THEN Raises
  ELSE Returns(OrderById(RowsById(rows),
                 [r \in rows |-> Copies(index, Joined(index, r, {Strip(tag)}))]))

\* The values of a list.
Range(xs) == {xs[i] : i \in 1..Len(xs)}

\* search_by_tags whose mode "any" selects without DISTINCT: a record comes
\* once per joined row.
search_by_tags_plain(index, rows, tbls, tags, mode) ==
  LET clean == DropEmpty(StripAll(tags))
  IN IF tags = <<>> \/ clean = <<>> THEN Returns(<<>>)
     ELSE IF ~ TagTablesExist(tbls) THEN Raises
     ELSE IF mode = "any"
     THEN Returns(OrderById(RowsById(rows),
            [r \in rows |-> Copies(index, Joined(index, r, Range(clean)))]))
     ELSE Returns(OrderById(RowsById(rows),
            [r \in rows |->
               LET group == Joined(index, r, Range(clean))
               IN IF group # {} /\ Cardinality({e.tag : e \in group}) = Len(clean)
                  THEN 1 ELSE 0]))

\* IndexSearcher.search_by_tags: clean is the list of the stripped non-blank
\* tags; mode "any" selects DISTINCT records, any other mode groups by record
\* and keeps the groups whose COUNT(DISTINCT ti.tag) equals len(clean).
search_by_tags(index, rows, tbls, tags, mode) ==
  LET clean == DropEmpty(StripAll(tags))
  IN IF tags = <<>> \/ clean = <<>> THEN Returns(<<>>)
     ELSE IF ~ TagTablesExist(tbls) THEN Raises
     ELSE IF mode = "any"
     THEN Returns(OrderById(RowsById(rows),
            [r \in rows |-> IF Joined(index, r, Range(clean)) # {} THEN 1 ELSE 0]))
     ELSE Returns(OrderById(RowsById(rows),
            [r \in rows |->
               LET group == Joined(index, r, Range(clean))
               IN IF group # {} /\ Cardinality({e.tag : e \in group}) = Len(clean)
                  THEN 1 ELSE 0]))

\* Case folding of the full-text tokenizer and of LIKE: "B" is the capital b.
Fold(ch) == IF ch = "B" THEN "b" ELSE ch

\* The characters the unicode61 tokenizer keeps in a token: the letters of
\* the alphabet ("d" is the letter of descriptions); every other character
\* separates tokens.
TokenChars == Letters \cup {"d", "B"}

\* The tokens of a text: the runs of token characters, case-folded.
RECURSIVE FtsTokensAcc(_, _)
FtsTokensAcc(s, cur) ==
  IF s = <<>> THEN (IF cur = <<>> THEN <<>> ELSE <<cur>>)
  ELSE IF Head(s) \notin TokenChars
       THEN (IF cur = <<>> THEN <<>> ELSE <<cur>>) \o FtsTokensAcc(Tail(s), <<>>)
  ELSE FtsTokensAcc(Tail(s), Append(cur, Fold(Head(s))))

FtsTokens(s) == FtsTokensAcc(s, <<>>)

\* The characters of an FTS5 bareword.
BarewordChars == TokenChars \cup {"_"}

\* Length of the bareword a query text starts with.
RECURSIVE BarewordLen(_)
BarewordLen(q) ==
  IF q # <<>> /\ Head(q) \in BarewordChars THEN 1 + BarewordLen(Tail(q)) ELSE 0

\* An FTS5 string after its opening quote: two quotes in a row stand for one
\* quote of the text, a single one closes the string.
RECURSIVE FtsString(_, _)
FtsString(q, text) ==
  IF q = <<>> THEN [closed |-> FALSE, text |-> text, rest |-> <<>>]
  ELSE IF Head(q) # "Q" THEN FtsString(Tail(q), Append(text, Head(q)))
  ELSE IF Len(q) >= 2 /\ q[2] = "Q" THEN FtsString(Tail(Tail(q)), Append(text, "Q"))
  ELSE [closed |-> TRUE, text |-> text, rest |-> Tail(q)]

\* The engine's reading of a MATCH expression: a list of phrases (barewords
\* and quoted strings, each cut into tokens) that a row must all hold; an
\* unterminated string or a character outside the query syntax is an error.
RECURSIVE FtsParse(_)
FtsParse(q) ==
  IF q = <<>> THEN [error |-> FALSE, phrases |-> <<>>]
  ELSE IF Head(q) \in Whitespace THEN FtsParse(Tail(q))
  ELSE IF Head(q) = "Q"
  THEN LET s == FtsString(Tail(q), <<>>)
       IN IF ~ s.closed THEN [error |-> TRUE, phrases |-> <<>>]
          ELSE LET r == FtsParse(s.rest)
               IN [error |-> r.error, phrases |-> <<FtsTokens(s.text)>> \o r.phrases]
  ELSE IF Head(q) \in BarewordChars
  THEN LET n == BarewordLen(q)
           r == FtsParse(SubSeq(q, n + 1, Len(q)))
       IN [error |-> r.error, phrases |-> <<FtsTokens(SubSeq(q, 1, n))>> \o r.phrases]
  ELSE [error |-> TRUE, phrases |-> <<>>]

\* The tokens of a phrase stand next to each other in the tokens of a column.
HasPhrase(tokens, phrase) ==
  \E i \in 1..(Len(tokens) - Len(phrase) + 1) :
     SubSeq(tokens, i, i + Len(phrase) - 1) = phrase

\* image_fts MATCH: the entry holds every phrase that has tokens, in its tags
\* or in its description; an expression without any token matches nothing.
FtsMatch(entry, phrases) ==
  LET terms == DropEmpty(phrases)
  IN /\ terms # <<>>
     /\ \A k \in 1..Len(terms) :
          \/ HasPhrase(FtsTokens(entry.tags), terms[k])
          \/ HasPhrase(FtsTokens(entry.description), terms[k])

\* The SELECT of search_fulltext: image_fts JOIN image_tags ON fts.rowid =
\* it.id WHERE image_fts MATCH query.  It raises when a table is missing or
\* the engine rejects the expression.
FtsSelect(fts, rows, tbls, query) ==
  LET parsed == FtsParse(query)
  IN IF ~ ({"image_fts", "image_tags"} \subseteq tbls) \/ parsed.error
     THEN [error |-> TRUE, rows |-> {}]
     ELSE [error |-> FALSE,
           rows |-> {r \in rows : \E e \in fts : e.rowid = r.id /\ FtsMatch(e, parsed.phrases)}]

\* ORDER BY rank: the selected records in the order of their rank (ranking
\* lists every record id, best first).
RECURSIVE OrderByRank(_, _)
OrderByRank(selected, ranking) ==
  IF ranking = <<>> THEN <<>>
  ELSE LET here == {r \in selected : r.id = Head(ranking)}
       IN (IF here = {} THEN <<>> ELSE <<Hit(CHOOSE r \in here : TRUE)>>)
          \o OrderByRank(selected, Tail(ranking))

\* The except clause of search_fulltext left out: the error of the engine
\* goes to the caller.
Caught_absent(selection, ranking) ==
  IF selection.error THEN Raises ELSE Returns(OrderByRank(selection.rows, ranking))

\* try: ... return rows / except Exception: print, return []
Caught(selection, ranking) ==
  IF selection.error THEN Returns(<<>>) ELSE Returns(OrderByRank(selection.rows, ranking))

\* IndexSearcher.search_fulltext
search_fulltext(fts, rows, tbls, query, ranking) ==
  IF Strip(query) = <<>> THEN Returns(<<>>)
  ELSE Caught(FtsSelect(fts, rows, tbls, Strip(query)), ranking)

\* SQL `tag LIKE pattern`: "%" stands for any text, "_" for any one
\* character, and letters match whatever their case.
RECURSIVE Like(_, _)
Like(s, pattern) ==
  IF pattern = <<>> THEN s = <<>>
  ELSE IF Head(pattern) = "%"
  THEN Like(s, Tail(pattern)) \/ (s # <<>> /\ Like(Tail(s), pattern))
  ELSE /\ s # <<>>
       /\ Head(pattern) = "_" \/ Fold(Head(pattern)) = Fold(Head(s))
       /\ Like(Tail(s), Tail(pattern))

\* The fallback of search_keyword: DISTINCT records with a tag LIKE
\* '%keyword%'.
LikeSelect(index, rows, tbls, keyword) ==
  IF ~ TagTablesExist(tbls) THEN Raises
  ELSE Returns(OrderById(RowsById(rows),
         [r \in rows |->
            IF \E e \in BagToSet(index) :
                 e.image_id = r.id /\ Like(e.tag, <<"%">> \o keyword \o <<"%">>)
            THEN 1 ELSE 0]))

\* IndexSearcher.search_keyword
search_keyword(index, fts, rows, tbls, keyword, ranking) ==
  LET results == search_fulltext(fts, rows, tbls, keyword, ranking)
  IN IF results.raised \/ results.result # <<>> THEN results
     ELSE IF Strip(keyword) = <<>> THEN Returns(<<>>)
     ELSE LikeSelect(index, rows, tbls, Strip(keyword))

\* The orders in which the engine can rank the records of the store: every
\* list of all record ids.
Rankings(rows) ==
  LET ids == {r.id : r \in rows}
  IN {s \in [1..Cardinality(ids) -> ids] : \A i, j \in DOMAIN s : i # j => s[i] # s[j]}

\* The tags clients search for.
TagQueries == {<<"b">>, <<" ", "b", "nl">>, <<"a", "b">>, <<"a">>}

\* The tag lists clients search for.
TagListQueries ==
  {<<>>, << <<" ">>, <<>> >>, << <<"b">> >>, << <<"a", "b">>, <<" ", "b">> >>,
   << <<"b">>, <<"b", " ">> >>, << <<"a">>, <<"b">> >>}

\* The modes of search_by_tags.
Modes == {"any", "all"}

\* The full-text queries clients make.
FulltextQueries ==
  {<<" ">>, <<"b">>, <<"a">>, <<"d">>, <<"a", "b", " ", "b">>,
   <<"Q", "a", "b", " ", "b", "Q">>, <<"Q", "b">>, <<"b", ",">>}

\* The keywords clients search for.
Keywords == {<<" ">>, <<"a">>, <<"b", " ">>, <<"B">>, <<"_">>, <<"%">>, <<"Q">>}

\* What is recorded of a query: the call, its input and what came back.
Searched(op, query, mode, r) ==
  [op |-> op, rejected |-> FALSE, raised |-> r.raised, changed |-> FALSE,
   query |-> query, mode |-> mode, result |-> r.result]

\* A client calls IndexSearcher.search_by_tag.
SearchByTag ==
  /\ pc = "idle"
  /\ \E tag \in TagQueries :
       last_op' = Searched("search_by_tag", tag, "none",
                           search_by_tag(tag_index, image_tags, tables, tag))
  /\ UNCHANGED <<store, run, updates, failed_attempts>>

\* A client calls IndexSearcher.search_by_tags.
SearchByTags ==
  /\ pc = "idle"
  /\ \E tags \in TagListQueries, mode \in Modes :
       last_op' = Searched("search_by_tags", tags, mode,
                           search_by_tags(tag_index, image_tags, tables, tags, mode))
  /\ UNCHANGED <<store, run, updates, failed_attempts>>

\* A client calls IndexSearcher.search_fulltext.
SearchFulltext ==
  /\ pc = "idle"
  /\ \E query \in FulltextQueries, ranking \in Rankings(image_tags) :
       last_op' = Searched("search_fulltext", query, "none",
                           search_fulltext(image_fts, image_tags, tables, query, ranking))
  /\ UNCHANGED <<store, run, updates, failed_attempts>>

\* A client calls IndexSearcher.search_keyword; fulltext is what its call of
\* search_fulltext returned.
SearchKeyword ==
  /\ pc = "idle"
  /\ \E keyword \in Keywords, ranking \in Rankings(image_tags) :
       LET r == search_keyword(tag_index, image_fts, image_tags, tables, keyword, ranking)
       IN last_op' =
            [op |-> "search_keyword", rejected |-> FALSE, raised |-> r.raised,
             changed |-> FALSE, query |-> keyword, mode |-> "none", result |-> r.result,
             fulltext |-> search_fulltext(image_fts, image_tags, tables, keyword, ranking).result]
  /\ UNCHANGED <<store, run, updates, failed_attempts>>

\* ------------------------------------------------------------------------
\* Specification
\* ------------------------------------------------------------------------

\* The pipeline: runs of main over the directory.
Next ==
  \/ StartRun
  \/ \E i \in 1..NumImages : Begin(i)
  \/ \E i \in 1..NumImages : Process(i)
  \/ \E i \in 1..NumImages : Collect(i)
  \/ Build
  \/ Report

Spec == Init /\ [][Next]_vars

\* The store and its indexes under the calls of their clients: rows are
\* written and the indexes are rebuilt.
StoreNext ==
  \/ ApiInsertTag
  \/ CliBuild

StoreSpec == Init /\ [][StoreNext]_vars

\* The writes to the image_tags table by the clients of the store.
WriteNext ==
  \/ ApiInsertTag
  \/ UpdateIndexStatus
  \/ BatchUpdateIndexStatus

WriteSpec == Init /\ [][WriteNext]_vars

\* Number of rows the clients of the searcher insert.
MaxIndexedRows == 2

\* Number of rows inserted by the clients that also set index statuses.
MaxClientRows == 1

\* The clients of the store and of the searcher: rows are written, index
\* statuses are set, the indexes are rebuilt and queried.
ClientNext ==
  \/ seq < MaxClientRows /\ ApiInsertTag
  \/ UpdateIndexStatus
  \/ BatchUpdateIndexStatus
  \/ CliBuild
  \/ SearchByTag
  \/ SearchByTags
  \/ SearchFulltext
  \/ SearchKeyword

ClientSpec == Init /\ [][ClientNext]_vars

\* The searcher over a store that clients fill and index.
SearchNext ==
  \/ seq < MaxIndexedRows /\ ApiInsertTag
  \/ CliBuild
  \/ SearchByTag
  \/ SearchByTags
  \/ SearchFulltext
  \/ SearchKeyword

SearchSpec == Init /\ [][SearchNext]_vars

\* Length of the texts given to parse_tags, in atoms.
MaxTextLen == 4

\* The largest expected_count given to parse_tags.
MaxExpectedCount == 2

\* The atoms of the texts given to parse_tags.
ParseAtoms == {"a", ",", " ", "nl", "Q", "X", "okay", "tags:", ";"}

\* Longer answers of a model: a reasoning text that ends in a tag line, one
\* with quoted tags, one with more tags than asked for next to an overlong
\* one, and one with full-width separators.
LongTexts ==
  {<<"maybe", "nl", "a", ",", "b", ",", "c">>,
   <<"okay", " ", "Q", "a", "Q", " ", "Q", "b", "Q">>,
   <<"X", ",", "a", ",", "b", ",", "c">>,
   <<"a", "fwcomma", "b", "dun", "c">>}

\* Number of tags of the comma lists given to parse_tags.
MaxListLen == 3

\* The tags of those lists: one word, two words, a piece with a semicolon
\* and a word that is a reasoning keyword, all far shorter than the ceiling.
ListTags == {<<"a">>, <<"b">>, <<"a", " ", "b">>, <<"a", ";", "b">>, <<"maybe">>}

\* The well-formed comma lists: one to MaxListLen tags joined by commas.
CommaLists == {Join(tags, <<",">>) : tags \in UNION {[1..n -> ListTags] : n \in 1..MaxListLen}}

\* The texts given to parse_tags: every text of up to MaxTextLen atoms, the
\* longer ones and the comma lists.
ParseTexts ==
  UNION {[1..n -> ParseAtoms] : n \in 0..MaxTextLen} \cup LongTexts \cup CommaLists

\* A caller is about to call parse_tags(text, expected_count).
ParseInit ==
  /\ image_tags = {}
  /\ seq = 0
  /\ tag_index = EmptyBag
  /\ image_fts = {}
  /\ tables = {}
  /\ pc = "idle"
  /\ config = NoConfig
  /\ image_files = <<>>
  /\ task = <<>>
  /\ processed_count = 0
  /\ failed_count = 0
  /\ index_stats = None
  /\ report = "none"
  /\ runs = 0
  /\ updates = 0
  /\ failed_attempts = {}
  /\ \E text \in ParseTexts, expected_count \in 1..MaxExpectedCount :
       last_op = [op |-> "call", rejected |-> FALSE, raised |-> FALSE, changed |-> FALSE,
                  text |-> text, expected_count |-> expected_count, result |-> <<>>]

\* The call of parse_tags returns.
ParseTags ==
  /\ last_op.op = "call"
  /\ last_op' = [last_op EXCEPT !.op = "parse_tags",
                                 !.result = parse_tags(last_op.text, last_op.expected_count)]
  /\ UNCHANGED <<store, run, updates, failed_attempts>>

\* parse_tags applied to the texts and counts of its callers.
ParseSpec == ParseInit /\ [][ParseTags]_vars

\* The caller joins the tags it got with commas and parses them again with
\* the same count.
ParseJoined ==
  /\ last_op.op = "parse_tags"
  /\ last_op' = [op |-> "parse_joined", rejected |-> FALSE, raised |-> FALSE,
                 changed |-> FALSE, text |-> last_op.text,
                 expected_count |-> last_op.expected_count, result |-> last_op.result,
                 again |-> parse_tags(Join(last_op.result, <<",">>), last_op.expected_count)]
  /\ UNCHANGED <<store, run, updates, failed_attempts>>

\* parse_tags applied to a text and then to its own output joined by commas.
RoundTripNext ==
  \/ ParseTags
  \/ ParseJoined

RoundTripSpec == ParseInit /\ [][RoundTripNext]_vars

\* Length of the paths given to generate_unique_id, in components.
MaxPathLen == 3

\* The components of those paths.
PathParts == {".", "..", "pics", "img1"}

\* The paths given to generate_unique_id: relative ones of up to MaxPathLen
\* components, and absolute ones ("/" and up to MaxPathLen - 1 components).
PathInputs ==
  LET relative == UNION {[1..n -> PathParts] : n \in 1..MaxPathLen}
      below == UNION {[1..n -> PathParts] : n \in 0..(MaxPathLen - 1)}
  IN relative \cup {<<"/">> \o p : p \in below}

\* Two callers are about to call generate_unique_id, each with its path.
IdInit ==
  /\ image_tags = {}
  /\ seq = 0
  /\ tag_index = EmptyBag
  /\ image_fts = {}
  /\ tables = {}
  /\ pc = "idle"
  /\ config = NoConfig
  /\ image_files = <<>>
  /\ task = <<>>
  /\ processed_count = 0
  /\ failed_count = 0
  /\ index_stats = None
  /\ report = "none"
  /\ runs = 0
  /\ updates = 0
  /\ failed_attempts = {}
  /\ \E p1 \in PathInputs, p2 \in PathInputs :
       last_op = [op |-> "call", rejected |-> FALSE, raised |-> FALSE, changed |-> FALSE,
                  paths |-> <<p1, p2>>, ids |-> <<>>]

\* Both calls of generate_unique_id return.
GenerateIds ==
  /\ last_op.op = "call"
  /\ last_op' = [last_op EXCEPT !.op = "generate_unique_id",
                                 !.ids = <<generate_unique_id(last_op.paths[1]),
                                           generate_unique_id(last_op.paths[2])>>]
  /\ UNCHANGED <<store, run, updates, failed_attempts>>

\* generate_unique_id applied to the paths of two callers.
IdSpec == IdInit /\ [][GenerateIds]_vars

\* The configurations of the runs that are repeated over a directory: without
\* force-reprocess, with batch_size and max_workers set.
RepeatConfigs == {c \in ExtendedConfigs : ~ c.reprocess}

\* main is run again, without force-reprocess, however many runs there were.
RunAgain == StartRunWith(RepeatConfigs)

RepeatNext ==
  \/ RunAgain
  \/ \E i \in 1..NumImages : Begin(i)
  \/ \E i \in 1..NumImages : Process(i)
  \/ \E i \in 1..NumImages : Collect(i)
  \/ Build
  \/ Report

\* main is run over the unchanged directory again and again: a run that has
\* started goes on, and when it has ended the next one is started.
RepeatSpec == Init /\ [][RepeatNext]_vars /\ WF_vars(RepeatNext)

\* The steps of a run of main; a run that has started keeps being scheduled.
RunStep ==
  \/ \E i \in 1..NumImages : Begin(i) \/ Process(i) \/ Collect(i)
  \/ Build
  \/ Report

FairSpec == Spec /\ WF_vars(RunStep)

\* ------------------------------------------------------------------------
\* Properties
\* ------------------------------------------------------------------------

\* The row of an image in the store, if any.
RowsOf(image_path) ==
  {r \in image_tags : r.image_unique_id = generate_unique_id(image_path)}

\* The tasks of the run that have come back from process_image.
Returned == {i \in DOMAIN task : task[i].st = "closed"}

\* C1: when the model call for an image fails, the store afterwards holds a
\* row for that image with status 'failed' whose error_message carries the
\* error kind and the detail.
C1_FailedCallIsRecorded ==
  \A i \in Returned :
    task[i].outcome \in ModelErrorKinds =>
      \E r \in RowsOf(image_files[i]) :
        /\ r.status = "failed"
        /\ Contains(r.error_message, task[i].outcome)
        /\ Contains(r.error_message, "detail")

\* The counts of main at every point of a run: main does not end with an
\* uncaught exception, every counted task is counted once and, at the report,
\* every image of the batch has been counted, as successful or as failed, and
\* the indexes are built.
CountsEveryImageOnce ==
  /\ pc # "crashed"
  /\ pc = "tagging" =>
       processed_count + failed_count
         = Cardinality({i \in DOMAIN task : task[i].st = "counted"})
  /\ pc = "report" =>
       /\ index_stats # None
       /\ \A i \in DOMAIN task : task[i].st = "counted"
       /\ processed_count = Cardinality({i \in DOMAIN task : task[i].success})
       /\ failed_count = Cardinality({i \in DOMAIN task : ~ task[i].success})
       /\ processed_count + failed_count = Len(image_files)

\* C2: a run over a batch of N images always goes on to the index build and
\* the report, whatever subset of the images fail or raise, and each of the N
\* images is counted exactly once, as successful or as failed, in the serial
\* mode and in the worker-pool mode.
C2_RunCountsEveryImageOnce ==
  /\ []CountsEveryImageOnce
  /\ (pc = "tagging") ~> (pc = "report")

\* C3: after any sequence of pipeline runs every row with status 'success'
\* has a non-empty tags string and tag_count > 0.
C3_SuccessRowsHaveTags ==
  \A r \in image_tags : r.status = "success" => r.tags # <<>> /\ r.tag_count > 0

\* A success row is stored and a task has parsed its text to no tags at all.
C3_Witness ==
  /\ \E r \in image_tags : r.status = "success"
  /\ \E i \in Returned : task[i].outcome = "tagged" /\ task[i].tags = <<>>

\* C4: whatever the interleaving of the workers of a run, the store holds at
\* most one row per image_unique_id and the row of every image a worker wrote
\* carries the values that worker wrote.
C4_WorkersDoNotInterfere ==
  /\ \A r1, r2 \in image_tags : r1.image_unique_id = r2.image_unique_id => r1 = r2
  /\ \A i \in DOMAIN task :
       task[i].wrote # None =>
         \E r \in image_tags :
           /\ r.image_unique_id = task[i].wrote.image_unique_id
           /\ r.image_path = task[i].wrote.image_path
           /\ r.tags = task[i].wrote.tags
           /\ r.description = task[i].wrote.description
           /\ r.tag_count = task[i].wrote.tag_count
           /\ r.status = task[i].wrote.status
           /\ r.error_message = task[i].wrote.error_message

\* Two workers of a pool have both written, the second task before the first.
C4_Witness ==
  /\ config.max_workers = 2
  /\ Len(image_files) = 2
  /\ task[1].wrote # None
  /\ task[2].wrote # None
  /\ \E r1 \in RowsOf(image_files[1]), r2 \in RowsOf(image_files[2]) : r2.id < r1.id

\* C5: an image whose tagging attempt failed in one run is not attempted again
\* by a run that does not set force-reprocess.
C5_FailedImageNotRetried ==
  \A i \in DOMAIN task :
    (~ config.reprocess /\ task[i].st = "running") => image_files[i] \notin failed_attempts

\* C6: when the model returns text but parse_tags yields no tag, process_image
\* records a row with status 'failed' and reports the image as failed.
C6_EmptyParseIsFailure ==
  \A i \in Returned :
    (task[i].outcome = "tagged" /\ task[i].tags = <<>>) =>
      /\ ~ task[i].success
      /\ \E r \in RowsOf(image_files[i]) : r.status = "failed"

\* C7: when the store rejects a write (insert_tag, update_index_status or
\* batch_update_index_status) nothing of it is committed and the failure is
\* raised to the caller.
C7_RejectedWriteIsRaised ==
  last_op.rejected => (~ last_op.changed /\ last_op.raised)

\* build() has returned and the store has not been written since.
Built == last_op.op = "build" /\ ~ last_op.raised

\* The trimmed, non-empty comma-separated pieces of a tags string.
Pieces(tags) ==
  {Strip(Split(tags, ",")[k]) : k \in 1..Len(Split(tags, ","))} \ {<<>>}

\* C8: after build() returns, tag_index contains exactly the pairs (t, r.id)
\* for the rows r of image_tags with status 'success' and the trimmed,
\* non-empty pieces t of r.tags; rows of another status contribute nothing and
\* nothing else survives from before the build.
C8_TagIndexIsRebuilt ==
  Built =>
    {<<e.tag, e.image_id>> : e \in BagToSet(tag_index)}
      = UNION {{<<t, r.id>> : t \in Pieces(r.tags)} :
                 r \in {q \in image_tags : q.status = "success"}}

\* A build over a store with a failed row that has tags and a success row.
C8_Witness ==
  /\ Built
  /\ \E r \in image_tags : r.status = "failed" /\ Pieces(r.tags) # {}
  /\ \E r \in image_tags : r.status = "success" /\ Pieces(r.tags) # {}
  /\ tag_index # EmptyBag

\* C9: after build() returns, image_fts has exactly one entry per row with
\* status 'success' and none for another row; its rowid is the record's id,
\* its tags are the record's tags with every comma replaced by a space and
\* its description is the record's, or the empty string when that is null.
C9_FtsIsRebuilt ==
  Built =>
    /\ \A r \in image_tags :
         Cardinality({e \in image_fts : e.rowid = r.id})
           = IF r.status = "success" THEN 1 ELSE 0
    /\ \A e \in image_fts :
         \E r \in image_tags :
           /\ r.id = e.rowid
           /\ r.status = "success"
           /\ Len(e.tags) = Len(r.tags)
           /\ \A k \in 1..Len(r.tags) :
                e.tags[k] = IF r.tags[k] = "," THEN " " ELSE r.tags[k]
           /\ e.description = IF r.description = NULL THEN <<>> ELSE r.description

\* A build over a failed row and a success row with commas and no description.
C9_Witness ==
  /\ Built
  /\ \E r \in image_tags : r.status = "failed"
  /\ \E r \in image_tags :
       r.status = "success" /\ r.description = NULL /\ Contains(r.tags, ",")
  /\ image_fts # {}

\* C10: in every reachable state tag_index holds at most one row per
\* (tag, image_id) pair, also when a tags string names a tag more than once.
C10_TagIndexPairsUnique ==
  /\ \A e \in BagToSet(tag_index) : CopiesIn(e, tag_index) = 1
  /\ \A e1, e2 \in BagToSet(tag_index) :
       (e1.tag = e2.tag /\ e1.image_id = e2.image_id) => e1 = e2

\* A build over a success row whose tags string repeats a tag.
C10_Witness ==
  /\ Built
  /\ \E r \in image_tags :
       /\ r.status = "success"
       /\ \E j, k \in 1..Len(_parse_tags(r.tags)) :
            j # k /\ _parse_tags(r.tags)[j] = _parse_tags(r.tags)[k]
       /\ \E e \in BagToSet(tag_index) : e.image_id = r.id

\* C11: tag_index and image_fts are changed only by a build: a step that
\* leaves either of them different is a build, so insert_tag,
\* update_index_status, batch_update_index_status and the queries of the
\* searcher leave both as they were.
C11_IndexesChangeOnlyInBuild ==
  [][(tag_index' # tag_index \/ image_fts' # image_fts) => last_op'.op = "build"]_vars

\* The index status of an indexed record was set after a build: both indexes
\* are there and still hold the record.
C11_Witness ==
  /\ last_op.op = "update_index_status" /\ last_op.changed
  /\ \E r \in image_tags :
       /\ r.index_status = "indexed"
       /\ \E e \in BagToSet(tag_index) : e.image_id = r.id
       /\ \E f \in image_fts : f.rowid = r.id

\* C12: build() leaves every row of image_tags as it was: a build step
\* changes no record, so a record that was 'not_indexed' before a build is
\* 'not_indexed' after it.
C12_BuildLeavesRows ==
  [][last_op'.op = "build" =>
       /\ image_tags' = image_tags
       /\ \A r \in image_tags : r.index_status = "not_indexed" =>
             \E q \in image_tags' : q.id = r.id /\ q.index_status = "not_indexed"]_vars

\* A successful build has indexed a record and the record is still
\* 'not_indexed'.
C12_Witness ==
  /\ Built
  /\ \E r \in image_tags :
       /\ r.index_status = "not_indexed"
       /\ \E e \in BagToSet(tag_index) : e.image_id = r.id
       /\ \E f \in image_fts : f.rowid = r.id

\* C13: in a run the index build starts only after every tagging worker of
\* the run has finished, and no tagging write to the store happens during or
\* after the build: the step that builds the indexes (the run goes from
\* tagging to report) finds every task of the batch finished, and every step
\* that writes image_tags is a step of the tagging phase, which the build
\* ends.
C13_BuildAfterWorkers ==
  [][/\ (pc = "tagging" /\ pc' = "report") =>
          \A i \in DOMAIN task : task[i].st \in {"closed", "counted"}
     /\ (image_tags' # image_tags \/ seq' # seq) => (pc = "tagging" /\ pc' = "tagging")
     /\ (tag_index' # tag_index \/ image_fts' # image_fts) =>
          (pc = "tagging" /\ pc' = "report")]_vars

\* A run with two workers has tagged its two images and built the indexes
\* over their rows.
C13_Witness ==
  /\ pc = "report" /\ index_stats # None
  /\ config.max_workers = 2 /\ Len(task) = 2
  /\ \A i \in DOMAIN task : task[i].st = "counted"
  /\ Cardinality(image_tags) = 2
  /\ tag_index # EmptyBag

\* The records of the store that have an entry of the inverted index (an
\* entry carries the id of its record) whose tag satisfies Matches.
Tagged(Matches(_)) ==
  {r \in image_tags : \E e \in BagToSet(tag_index) : e.image_id = r.id /\ Matches(e.tag)}

\* A result lists exactly the given records, each once, in ascending id.
ListsOnceById(result, records) ==
  /\ {result[i] : i \in DOMAIN result} = {Hit(r) : r \in records}
  /\ Len(result) = Cardinality(records)
  /\ \A i, j \in DOMAIN result : i < j => result[i].id < result[j].id

\* C14: search_by_tag(tag) returns exactly the records that have an
\* inverted-index entry whose tag equals the input with the surrounding
\* whitespace trimmed, each such record once, in ascending record id.
C14_SearchByTagExact ==
  (last_op.op = "search_by_tag" /\ ~ last_op.raised) =>
    LET Equal(t) == t = Strip(last_op.query)
    IN ListsOnceById(last_op.result, Tagged(Equal))

\* A tag given with whitespace around it was searched and two records came
\* back.
C14_Witness ==
  /\ last_op.op = "search_by_tag" /\ ~ last_op.raised
  /\ Strip(last_op.query) # last_op.query
  /\ Len(last_op.result) = 2

\* C15: search_by_tags(tags, mode = 'all') returns exactly the records that
\* carry every listed tag, a tag listed more than once counting once: the
\* records whose distinct matched tags are as many as the distinct non-blank
\* tags of the input.
C15_AllModeCountsDistinctTags ==
  (last_op.op = "search_by_tags" /\ last_op.mode = "all" /\ ~ last_op.raised) =>
    LET listed == Range(DropEmpty(StripAll(last_op.query)))
        Matched(r) == {e.tag : e \in Joined(tag_index, r, listed)}
    IN listed # {} =>
         ListsOnceById(last_op.result,
                       {r \in image_tags : Cardinality(Matched(r)) = Cardinality(listed)})

\* C16: search_by_tags(tags, mode = 'any') returns exactly the records that
\* have at least one of the listed tags (each trimmed) in the inverted index,
\* each record once however many listed tags it matches, in ascending record
\* id; for an empty or all-blank list it returns the empty list and raises
\* nothing.
C16_AnyModeIsUnion ==
  (last_op.op = "search_by_tags" /\ last_op.mode = "any") =>
    LET listed == Range(DropEmpty(StripAll(last_op.query)))
        Listed(t) == t \in listed
    IN /\ listed = {} => (~ last_op.raised /\ last_op.result = <<>>)
       /\ ~ last_op.raised => ListsOnceById(last_op.result, Tagged(Listed))

\* Two tags were searched in mode any; two records came back, one of them
\* carrying both tags.
C16_Witness ==
  /\ last_op.op = "search_by_tags" /\ last_op.mode = "any" /\ ~ last_op.raised
  /\ Len(last_op.result) = 2
  /\ \E r \in image_tags :
       Cardinality({e.tag : e \in Joined(tag_index, r,
                                          Range(DropEmpty(StripAll(last_op.query))))}) = 2

\* The text k stands in the text t.
IsSubstring(k, t) == \E i \in 1..(Len(t) - Len(k) + 1) : SubSeq(t, i, i + Len(k) - 1) = k

\* C17: search_keyword(k) returns the full-text result whenever that result
\* is not empty; otherwise it returns exactly the records having at least one
\* inverted-index tag that contains the trimmed keyword as a substring, each
\* record once, in ascending record id.
C17_KeywordFallsBackToSubstring ==
  (last_op.op = "search_keyword" /\ ~ last_op.raised /\ Strip(last_op.query) # <<>>) =>
    LET HasKeyword(t) == IsSubstring(Strip(last_op.query), t)
    IN IF last_op.fulltext # <<>>
       THEN last_op.result = last_op.fulltext
       ELSE ListsOnceById(last_op.result, Tagged(HasKeyword))

\* The full-text engine rejects the query: the expression is malformed or a
\* table of the SELECT is missing.
Rejected(query) == FtsSelect(image_fts, image_tags, tables, Strip(query)).error

\* C18: search_fulltext never propagates an exception: a query the full-text
\* engine rejects yields the empty list, as does a blank query, and the call
\* leaves the store and both indexes as they were.
C18_FulltextNeverRaises ==
  /\ [](last_op.op = "search_fulltext" =>
          /\ ~ last_op.raised
          /\ (Strip(last_op.query) = <<>> \/ Rejected(last_op.query)) => last_op.result = <<>>)
  /\ [][last_op'.op = "search_fulltext" => UNCHANGED store]_vars

\* A malformed query was made on a built full-text index that holds entries,
\* and the empty list came back.
C18_Witness ==
  /\ last_op.op = "search_fulltext" /\ ~ last_op.raised /\ last_op.result = <<>>
  /\ FtsParse(Strip(last_op.query)).error
  /\ {"image_fts", "image_tags"} \subseteq tables
  /\ image_fts # {}

\* C19: in every reachable state a record has a non-null error_message if
\* and only if its status is 'failed', after tagging writes and after the
\* updates made through update_index_status.
C19_ErrorMessageIffFailed ==
  \A r \in image_tags : (r.error_message # NULL) <=> (r.status = "failed")

\* C20: for every input text and every positive expected_count, parse_tags
\* returns at most expected_count tags, each non-empty after trimming and
\* each shorter than the ceiling of 100 characters; for the empty string it
\* returns the empty list.
C20_ParsedTagsAreBounded ==
  last_op.op = "parse_tags" =>
    /\ Len(last_op.result) <= last_op.expected_count
    /\ \A i \in DOMAIN last_op.result :
         /\ Strip(last_op.result[i]) # <<>>
         /\ StrLen(last_op.result[i]) < 100
    /\ last_op.text = <<>> => last_op.result = <<>>

\* C21: parse_tags never returns the same tag twice: its output is
\* deduplicated, the first occurrence of each tag kept in the order of the
\* input.
C21_ParsedTagsAreDistinct ==
  last_op.op = "parse_tags" =>
    \A i, j \in DOMAIN last_op.result : i # j => last_op.result[i] # last_op.result[j]

\* C22: parse_tags is idempotent on well-formed comma lists: for a comma
\* list x of tags shorter than the ceiling and every count,
\* parse_tags(','.join(parse_tags(x, count)), count) = parse_tags(x, count).
C22_ParseIsIdempotent ==
  (last_op.op = "parse_joined" /\ last_op.text \in CommaLists) =>
    last_op.again = last_op.result

\* C23: no tag returned by parse_tags contains a comma, so the tags string
\* process_image stores (the tags joined by ',') splits back, in _parse_tags,
\* into exactly the list the parser produced, and the tag_count of the stored
\* success record equals the number of pieces _parse_tags splits out.
C23_StoredTagsSplitBack ==
  last_op.op = "parse_tags" =>
    LET args == SuccessArgs(all_image_files[1], last_op.result, NULL)
    IN /\ \A i \in DOMAIN last_op.result : ~ Contains(last_op.result[i], ",")
       /\ CheckTagCount(args.tag_count) =>
            /\ _parse_tags(args.tags) = last_op.result
            /\ Len(_parse_tags(args.tags)) = args.tag_count

\* The place in the file system a path names: the walk from the root (for an
\* absolute path) or from the working directory, component by component.
RECURSIVE WalkFrom(_, _)
WalkFrom(place, p) ==
  IF p = <<>> THEN place
  ELSE WalkFrom(CASE Head(p) = "/" -> <<>>
                  [] Head(p) = "." -> place
                  [] Head(p) = ".." -> (IF place = <<>> THEN place
                                        ELSE SubSeq(place, 1, Len(place) - 1))
                  [] OTHER -> Append(place, Head(p)),
                Tail(p))

PlaceOf(p) == WalkFrom(Tail(cwd), p)

\* C24: generate_unique_id is a function of the resolved absolute path alone:
\* two paths that name the same place (also when written in different
\* relative forms) get the same identifier, and two paths that name
\* different places get different identifiers.
C24_IdentifierIsThatOfThePlace ==
  last_op.op = "generate_unique_id" =>
    (last_op.ids[1] = last_op.ids[2]) <=> (PlaceOf(last_op.paths[1]) = PlaceOf(last_op.paths[2]))

\* Two paths written differently, one relative with dots and one absolute,
\* name the same place and got the same identifier.
C24_Witness ==
  /\ last_op.op = "generate_unique_id"
  /\ last_op.paths[1] # last_op.paths[2]
  /\ Head(last_op.paths[1]) = ".." /\ Head(last_op.paths[2]) = "/"
  /\ PlaceOf(last_op.paths[1]) = <<"pics", "img1">>
  /\ last_op.ids[1] = last_op.ids[2]

\* The image has a row in the store.
HasRow(image_path) ==
  \E r \in image_tags : r.image_unique_id = generate_unique_id(image_path)

\* C25: in a run that does not reprocess, an image that has a row in the
\* store is never sent to the model (no task goes through the model call for
\* it), and every row of the store is left exactly as it is.
C25_ExistingRowsAreSkipped ==
  [][(pc = "tagging" /\ ~ config.reprocess) =>
       /\ \A r \in image_tags : r \in image_tags'
       /\ \A i \in DOMAIN task :
            (task[i].st = "running" /\ task'[i].st = "closed") => ~ HasRow(image_files[i])]_vars

\* A run that does not reprocess found the row of the first image, took the
\* second image alone as its batch and has tagged it; the first row is there.
C25_Witness ==
  /\ pc = "tagging" /\ ~ config.reprocess
  /\ image_files = <<all_image_files[2]>>
  /\ task[1].st = "closed" /\ task[1].wrote # None
  /\ \E r \in image_tags : r.id = 1 /\ r.image_unique_id = generate_unique_id(all_image_files[1])

\* C26: each tagging task has a store connection of its own, open exactly
\* while the task runs (so there is one open connection per running task and
\* none is shared); the connection is closed on every way out of the task (a
\* success, a recorded failure, an exception raised inside process_image), and
\* no worker connection is open once the tagging phase has ended.
C26_WorkerConnectionsAreClosed ==
  /\ \A i \in DOMAIN task :
       /\ task[i].st = "queued" => task[i].conn = "none"
       /\ task[i].st = "running" <=> task[i].conn = "open"
       /\ task[i].st \in {"closed", "counted"} => task[i].conn = "closed"
  /\ pc # "tagging" => \A i \in DOMAIN task : task[i].conn = "closed"

\* The tagging phase has ended; one task of it was a success and another
\* ended with an exception raised inside process_image; both connections are
\* closed.
C26_Witness ==
  /\ pc = "report"
  /\ \E i, j \in DOMAIN task :
       /\ task[i].success /\ task[i].conn = "closed"
       /\ task[j].error = "error" /\ task[j].conn = "closed"

\* C27: whenever process_image has returned True for an image, the store
\* holds a row for that image with status 'success' whose tags are the tags
\* of the parser joined by commas.
C27_TrueMeansStored ==
  \A i \in Returned :
    task[i].success =>
      \E r \in RowsOf(image_files[i]) :
        r.status = "success" /\ r.tags = Join(task[i].tags, <<",">>)

\* C28: in every reachable state, also after the row of an image has been
\* replaced and before the next build, every record search_by_tag returns is
\* a row of the store that has the searched tag (trimmed) among the trimmed
\* comma-separated pieces of its tags: an inverted-index entry left over from
\* a replaced row never brings back a record whose tags lack the tag.
C28_StaleEntriesReturnNothing ==
  (last_op.op = "search_by_tag" /\ ~ last_op.raised) =>
    \A k \in DOMAIN last_op.result :
      \E r \in image_tags :
        /\ Hit(r) = last_op.result[k]
        /\ Strip(last_op.query) \in Pieces(r.tags)

\* A tag was searched for which tag_index holds an entry of a replaced row:
\* the image of the entry has a row again, under another id and without the
\* tag.
C28_Witness ==
  /\ last_op.op = "search_by_tag" /\ ~ last_op.raised
  /\ \E e \in BagToSet(tag_index) :
       /\ e.tag = Strip(last_op.query)
       /\ \E r \in image_tags :
            /\ r.image_unique_id = e.image_unique_id
            /\ r.id # e.image_id
            /\ e.tag \notin Pieces(r.tags)

\* The positions in the sorted listing of the images without a row.
Remaining == {k \in 1..NumImages : ~ HasRow(all_image_files[k])}

\* The batch is the first config.batch_size of the remaining images (all of
\* them if they are fewer), in the order of the listing.
IsFirstBatch ==
  /\ Len(image_files) = (IF Cardinality(Remaining) > config.batch_size
                         THEN config.batch_size ELSE Cardinality(Remaining))
  /\ \A j \in DOMAIN image_files :
       \E k \in Remaining :
         /\ image_files[j] = all_image_files[k]
         /\ Cardinality({m \in Remaining : m < k}) = j - 1

\* C29: a run without force-reprocess takes the first batch_size of the
\* unprocessed images in sorted order, the next run takes the next ones, and
\* when main is run again and again over the unchanged directory a run comes
\* that finds every image attempted and reports that all images are already
\* processed.
C29_RepeatedRunsFinish ==
  /\ []((pc = "tagging" /\ \A i \in DOMAIN task : task[i].st = "queued") => IsFirstBatch)
  /\ <>(report = "all_processed" /\ Remaining = {})

\* C30: the tag_index_rows figure build() returns is the number of rows in
\* tag_index after the build and fts_index_rows is the number of rows in
\* image_fts, whatever the store holds, records whose tags repeat a tag
\* included.
C30_BuildCountsTheIndexRows ==
  (pc = "report" /\ index_stats # None) =>
    /\ index_stats.tag_index_rows = BagCardinality(tag_index)
    /\ index_stats.fts_index_rows = Cardinality(image_fts)

====
